---- MODULE Spec2Model ----
(***************************************************************************)
(* WiiMedic history tracking (source/history.c): the snapshot history file *)
(* kept on SD or USB, the save operation (history_save_snapshot) and the   *)
(* review operation (run_history).                                         *)
(*                                                                         *)
(* 32-bit values.  A u32 or s32 is held as the integer its 32 bits denote  *)
(* when read as two's complement (MinS32..MaxS32), because the model       *)
(* checker's integers are 32 bits wide.  So the u32 0xFFFFFFFF is held as  *)
(* -1 and 0x80000000 as MinS32; a cast between u32 and int keeps the bits  *)
(* and hence keeps the held integer.  Signed comparisons are < and >;      *)
(* unsigned comparisons are U32Less/U32Greater; arithmetic wraps.          *)
(*                                                                         *)
(* Files.  A file is a sequence of cells, one cell per packed struct       *)
(* field in file order: 4 cells for history_header_t, 17 for snapshot_t    *)
(* (padding[3] is three cells).  A file may end after any cell.            *)
(***************************************************************************)
EXTENDS Integers, Sequences, FiniteSets, TLC

\* ---------------------------------------------------------------- bounds
MaxOps == 2
MaxSaves == 53
MaxVaried == 2

\* ------------------------------------------------------- 32-bit integers
MaxS32 == 2147483646 + 1
MinS32 == (-2147483646) - 2

\* unsigned a < b on the held bit patterns
U32Less(a, b) ==
    IF (a >= 0) = (b >= 0) THEN a < b ELSE a >= 0

U32Greater(a, b) == U32Less(b, a)

\* a + k modulo 2^32, for 0 <= k <= MaxS32
U32Add(a, k) ==
    IF a > MaxS32 - k THEN MinS32 + (k - (MaxS32 - a) - 1) ELSE a + k

\* a - 1 on an int; INT_MIN - 1 overflows (undefined) and wraps on the
\* target
S32Dec(a) == IF a = MinS32 THEN MaxS32 ELSE a - 1

\* ------------------------------------------------------ program constants
HISTORY_MAGIC == 1464682563
HISTORY_VERSION == 1
MAX_SNAPSHOTS == 50

Loc == {"sd", "usb"}
NoPath == "NULL"

HdrCells == 4
SnapCells == 17

\* ------------------------------------------------------------ structures
\* history_header_t <-> cells
HdrToCells(h) == <<h.magic, h.version, h.count, h.reserved>>

HdrFromCells(c) ==
    [magic |-> c[1], version |-> c[2], count |-> c[3], reserved |-> c[4]]

\* snapshot_t <-> cells
SnapToCells(s) ==
    <<s.run_number, s.nand_clusters_used, s.nand_inodes_used,
      s.nand_health_score, s.ios_total, s.ios_stubs, s.ios_cios,
      s.hollywood_rev, s.boot2_ver, s.has_sd, s.has_usb, s.wifi_ok,
      s.gc_ports, s.wiimotes, s.padding[1], s.padding[2], s.padding[3]>>

SnapFromCells_swapped(c) ==
    [run_number |-> c[1], nand_clusters_used |-> c[2],
     nand_inodes_used |-> c[3], nand_health_score |-> c[4],
     ios_total |-> c[5], ios_stubs |-> c[6], ios_cios |-> c[7],
     hollywood_rev |-> c[8], boot2_ver |-> c[9], has_sd |-> c[11],
     has_usb |-> c[10], wifi_ok |-> c[12], gc_ports |-> c[13],
     wiimotes |-> c[14], padding |-> <<c[15], c[16], c[17]>>]

SnapFromCells(c) ==
    [run_number |-> c[1], nand_clusters_used |-> c[2],
     nand_inodes_used |-> c[3], nand_health_score |-> c[4],
     ios_total |-> c[5], ios_stubs |-> c[6], ios_cios |-> c[7],
     hollywood_rev |-> c[8], boot2_ver |-> c[9], has_sd |-> c[10],
     has_usb |-> c[11], wifi_ok |-> c[12], gc_ports |-> c[13],
     wiimotes |-> c[14], padding |-> <<c[15], c[16], c[17]>>]

\* memset(snap, 0, sizeof(*snap))
ZeroSnap == SnapFromCells([j \in 1..SnapCells |-> 0])

\* ------------------------------------------------------------ file system
NoFile == [exists |-> FALSE, data |-> <<>>]
FileOf(d) == [exists |-> TRUE, data |-> d]

\* fopen(path, "rb") succeeds: the device is mounted and the file exists
CanOpenRead(mnt, fs, l) == mnt[l] # "none" /\ fs[l].exists

\* fopen(path, "wb") succeeds: the device is mounted writable
CanOpenWrite(mnt, l) == mnt[l] = "rw"

\* fopen(path, "wb"); fclose(f): the file exists afterwards and is empty
Truncated(fs, l) == [fs EXCEPT ![l] = FileOf(<<>>)]

find_history_path_usb_first(mnt, fs) ==
    IF CanOpenRead(mnt, fs, "usb") THEN [path |-> "usb", fs |-> fs]
    ELSE IF CanOpenRead(mnt, fs, "sd") THEN [path |-> "sd", fs |-> fs]
    ELSE IF CanOpenWrite(mnt, "usb")
         THEN [path |-> "usb", fs |-> Truncated(fs, "usb")]
    ELSE IF CanOpenWrite(mnt, "sd")
         THEN [path |-> "sd", fs |-> Truncated(fs, "sd")]
    ELSE [path |-> NoPath, fs |-> fs]

find_history_path_read_only(mnt, fs) ==
    IF CanOpenRead(mnt, fs, "sd") THEN [path |-> "sd", fs |-> fs]
    ELSE IF CanOpenRead(mnt, fs, "usb") THEN [path |-> "usb", fs |-> fs]
    ELSE [path |-> NoPath, fs |-> fs]

\* find_history_path: the path returned and the file system it leaves
find_history_path(mnt, fs) ==
    IF CanOpenRead(mnt, fs, "sd") THEN [path |-> "sd", fs |-> fs]
    ELSE IF CanOpenRead(mnt, fs, "usb") THEN [path |-> "usb", fs |-> fs]
    ELSE IF CanOpenWrite(mnt, "sd")
         THEN [path |-> "sd", fs |-> Truncated(fs, "sd")]
    ELSE IF CanOpenWrite(mnt, "usb")
         THEN [path |-> "usb", fs |-> Truncated(fs, "usb")]
    ELSE [path |-> NoPath, fs |-> fs]

\* ----------------------------------------------------------- load_history
\* fread of n cells at file offset off into memory cells old (1..n): the
\* cells the file holds replace the old ones, the rest keep what they held
ReadCells(data, off, old) ==
    [j \in 1..Len(old) |->
        IF off + j <= Len(data) THEN data[off + j] ELSE old[j]]

\* count = (int)hdr->count; if (count > max_snaps) count = max_snaps;
ClampCount(c, max_snaps) ==
    IF c > max_snaps THEN max_snaps ELSE c

\* the records fread(snaps, sizeof(snapshot_t), count, f) leaves in memory
ReadSnaps(data, snaps0, count) ==
    [i \in 1..Len(snaps0) |->
        IF i <= count
        THEN SnapFromCells(ReadCells(data, HdrCells + SnapCells * (i - 1),
                                     SnapToCells(snaps0[i])))
        ELSE snaps0[i]]

load_history_no_version_check(canRead, data, hdr0, snaps0, max_snaps) ==
    IF ~canRead THEN [ret |-> 0, hdr |-> hdr0, snaps |-> snaps0]
    ELSE
      LET hdr == HdrFromCells(ReadCells(data, 0, HdrToCells(hdr0)))
      IN IF Len(data) < HdrCells \/ hdr.magic # HISTORY_MAGIC
         THEN [ret |-> 0, hdr |-> hdr, snaps |-> snaps0]
         ELSE
           LET count == ClampCount(hdr.count, max_snaps)
           IN [ret |-> count, hdr |-> hdr,
               snaps |-> ReadSnaps(data, snaps0, count)]

\* load_history: hdr0 and snaps0 are what the caller's (uninitialised)
\* locals hold on entry; the result is the return value and the locals
\* after the call.
load_history(canRead, data, hdr0, snaps0, max_snaps) ==
    IF ~canRead THEN [ret |-> 0, hdr |-> hdr0, snaps |-> snaps0]
    ELSE
      LET hdr == HdrFromCells(ReadCells(data, 0, HdrToCells(hdr0)))
      IN IF \/ Len(data) < HdrCells
            \/ hdr.magic # HISTORY_MAGIC
            \/ hdr.version # HISTORY_VERSION
         THEN [ret |-> 0, hdr |-> hdr, snaps |-> snaps0]
         ELSE
           LET count == ClampCount(hdr.count, max_snaps)
           IN [ret |-> count, hdr |-> hdr,
               snaps |-> ReadSnaps(data, snaps0, count)]

\* ----------------------------------------------------------- save_history
RECURSIVE Flatten(_, _)
\* the cells of snaps[1..n], in order
Flatten(snaps, n) ==
    IF n <= 0 THEN <<>>
    ELSE Flatten(snaps, n - 1) \o SnapToCells(snaps[n])

SavedHdr_stale_count(hdr, count) ==
    [hdr EXCEPT !.magic = HISTORY_MAGIC, !.version = HISTORY_VERSION]

\* the header save_history writes
SavedHdr(hdr, count) ==
    [hdr EXCEPT !.magic = HISTORY_MAGIC, !.version = HISTORY_VERSION,
                !.count = count]

\* the cells fwrite(hdr) and fwrite(snaps, sizeof(snapshot_t), count) put
\* in the file when every write succeeds
Encode(hdr, snaps, count) ==
    HdrToCells(SavedHdr(hdr, count)) \o Flatten(snaps, count)

\* save_history.  io is what the device does: "ok", or "short" when the
\* device stops accepting data before the last record.  A negative count
\* reaches fwrite as a huge size_t: the write runs off the end of the
\* array (undefined); ub = "late" stops the program after the header,
\* any other ub lets the whole array reach the file.
\* Result: the file system, how the write went, and whether the program
\* was stopped.
save_history(mnt, fs, path, hdr, snaps, count, io, ub) ==
    IF ~CanOpenWrite(mnt, path)
    THEN [fs |-> fs, io |-> "openfail", trap |-> FALSE]
    ELSE IF count < 0
    THEN IF ub = "late"
         THEN [fs |-> [fs EXCEPT ![path] =
                          FileOf(HdrToCells(SavedHdr(hdr, count)))],
               io |-> "short", trap |-> TRUE]
         ELSE [fs |-> [fs EXCEPT ![path] =
                          FileOf(HdrToCells(SavedHdr(hdr, count))
                                 \o Flatten(snaps, Len(snaps)))],
               io |-> "short", trap |-> FALSE]
    ELSE IF io = "short" /\ count > 0
    THEN [fs |-> [fs EXCEPT ![path] =
                     FileOf(HdrToCells(SavedHdr(hdr, count))
                            \o Flatten(snaps, count - 1))],
          io |-> "short", trap |-> FALSE]
    ELSE [fs |-> [fs EXCEPT ![path] = FileOf(Encode(hdr, snaps, count))],
          io |-> "ok", trap |-> FALSE]

\* ------------------------------------------------------- collect_snapshot
\* (float)used * 100.0f / cap > pct.  cap is 2048 or 6143 and pct is 75, 85
\* or 95: a used count of 2^24 or more is far above every threshold, and
\* below 2^24 the float product is exact enough that the comparison is the
\* one of the exact values (the only exact tie, 1536 of 2048 = 75, is exact
\* in float as well).
PctOver_or_equal(used, cap, pct) ==
    IF used < 0 \/ used > 16777216 THEN TRUE
    ELSE used * 100 >= pct * cap

PctOver(used, cap, pct) ==
    IF used < 0 \/ used > 16777216 THEN TRUE
    ELSE used * 100 > pct * cap

\* the "Compute health score inline" block
HealthScore(used_bytes, used_inodes) ==
    LET c == IF PctOver(used_bytes, 2048, 95) THEN 30
             ELSE IF PctOver(used_bytes, 2048, 85) THEN 15
             ELSE IF PctOver(used_bytes, 2048, 75) THEN 5 ELSE 0
        i == IF PctOver(used_inodes, 6143, 95) THEN 30
             ELSE IF PctOver(used_inodes, 6143, 85) THEN 15
             ELSE IF PctOver(used_inodes, 6143, 75) THEN 5 ELSE 0
        score == 100 - c - i
    IN IF score < 0 THEN 0 ELSE score

\* the titles the IOS loop does not skip
IsIOS(t) == t.upper = 1 /\ t.lower >= 3 /\ t.lower <= 255

IsCIOS(t) ==
    (t.lower >= 222 /\ t.lower <= 223) \/ (t.lower >= 249 /\ t.lower <= 251)

IsStub(t) == t.tmd_ok /\ (t.title_version = 0 \/ t.num_contents = 0)

\* snap->ios_total, snap->ios_cios, snap->ios_stubs after the loop
CountIOS(titles) ==
    Cardinality({k \in 1..Len(titles) : IsIOS(titles[k])})

CountCIOS(titles) ==
    Cardinality({k \in 1..Len(titles) : IsIOS(titles[k]) /\ IsCIOS(titles[k])})

CountStubs(titles) ==
    Cardinality({k \in 1..Len(titles) : IsIOS(titles[k]) /\ IsStub(titles[k])})

\* collect_snapshot: the record built from what the probes report (hw) and
\* from the mounted devices
\* collect_snapshot.  hw.used_bytes and hw.used_inodes are what the two
\* locals hold after ISFS_GetUsage, whether the call succeeded
\* (hw.usage_ok) or not: its return value is not looked at.
collect_snapshot(hw, mnt, run_number) ==
    LET listed == IF hw.es_ok THEN hw.titles ELSE <<>>
        used_bytes == hw.used_bytes
        used_inodes == hw.used_inodes
    IN [ZeroSnap EXCEPT
          !.run_number = run_number,
          !.hollywood_rev = hw.hollywood_rev,
          !.boot2_ver = hw.boot2_ver,
          !.nand_clusters_used = IF hw.isfs_ok THEN used_bytes ELSE 0,
          !.nand_inodes_used = IF hw.isfs_ok THEN used_inodes ELSE 0,
          !.nand_health_score =
              IF hw.isfs_ok THEN HealthScore(used_bytes, used_inodes)
              ELSE -1,
          !.ios_total = CountIOS(listed),
          !.ios_cios = CountCIOS(listed),
          !.ios_stubs = CountStubs(listed),
          !.has_sd = IF mnt["sd"] # "none" THEN 1 ELSE 0,
          !.has_usb = IF mnt["usb"] # "none" THEN 1 ELSE 0,
          !.wifi_ok = 0,
          !.gc_ports = hw.gc_ports,
          !.wiimotes = hw.wiimotes]

\* -------------------------------------------------- history_save_snapshot
\* what an operation leaves for the user and the caller to see
NoRes ==
    [op |-> "none", path |-> NoPath, loaded |-> 0, mem |-> <<>>,
     next_run |-> 0, count |-> 0, new_snap |-> ZeroSnap, io |-> "none",
     out |-> <<>>, crashed |-> FALSE, idx |-> {}, ui |-> <<>>,
     trends |-> <<>>,
     alerts |-> {}, rows |-> <<>>]

\* the locals hdr and snaps[MAX_SNAPSHOTS] as the stack holds them on entry
StackSnaps(g) == [i \in 1..MAX_SNAPSHOTS |-> g.snap]

\* snaps[0 .. count-1] as a sequence
Loaded(snaps, count) ==
    IF count <= 0 THEN <<>> ELSE SubSeq(snaps, 1, count)

NextRun_from_count(count, snaps) == U32Add(count, 1)

\* "Determine next run number"
NextRun(count, snaps) ==
    IF count > 0 THEN U32Add(snaps[count].run_number, 1) ELSE 1

AppendSnap_no_shift(snaps, count, new_snap) ==
    IF count >= MAX_SNAPSHOTS
    THEN [snaps |-> [snaps EXCEPT ![MAX_SNAPSHOTS] = new_snap],
          count |-> MAX_SNAPSHOTS, slot |-> MAX_SNAPSHOTS - 1]
    ELSE IF count < 0
    THEN [snaps |-> snaps, count |-> count + 1, slot |-> count]
    ELSE [snaps |-> [snaps EXCEPT ![count + 1] = new_snap],
          count |-> count + 1, slot |-> count]

AppendSnap_shift_early(snaps, count, new_snap) ==
    LET full == count >= MAX_SNAPSHOTS - 1
        sh == IF full
              THEN [i \in 1..MAX_SNAPSHOTS |->
                      IF i < MAX_SNAPSHOTS THEN snaps[i + 1] ELSE snaps[i]]
              ELSE snaps
        c == IF full THEN count - 1 ELSE count
    IN [snaps |-> IF c >= 0 /\ c < MAX_SNAPSHOTS
                  THEN [sh EXCEPT ![c + 1] = new_snap] ELSE sh,
        count |-> c + 1, slot |-> c]

\* "If full, shift out oldest"; snaps[count] = new_snap; count++.
\* slot is the C index written.  A slot outside the array is a store
\* outside the object (undefined): the array itself keeps its contents.
AppendSnap(snaps, count, new_snap) ==
    LET sh == IF count >= MAX_SNAPSHOTS
              THEN [i \in 1..MAX_SNAPSHOTS |->
                      IF i < MAX_SNAPSHOTS THEN snaps[i + 1] ELSE snaps[i]]
              ELSE snaps
        c == IF count >= MAX_SNAPSHOTS THEN MAX_SNAPSHOTS - 1 ELSE count
    IN [snaps |-> IF c >= 0 /\ c < MAX_SNAPSHOTS
                  THEN [sh EXCEPT ![c + 1] = new_snap] ELSE sh,
        count |-> c + 1, slot |-> c]

\* history_save_snapshot.  g: what the uninitialised locals hold; io: how
\* the device takes the write; ub: what an access outside the array does
\* ("trap": the program is stopped at the first one; "late": the store
\* goes unnoticed and the program is stopped in fwrite; "silent": the
\* program goes on).
history_save_snapshot(mnt, fs, hw, g, io, ub) ==
    LET fp == find_history_path(mnt, fs)
    IN IF fp.path = NoPath
       THEN [fs |-> fp.fs,
             res |-> [NoRes EXCEPT !.op = "save",
                        !.ui = <<"warn: No storage available for history tracking">>]]
       ELSE
         LET ld == load_history(CanOpenRead(mnt, fp.fs, fp.path),
                                fp.fs[fp.path].data, g.hdr, StackSnaps(g),
                                MAX_SNAPSHOTS)
             next_run == NextRun(ld.ret, ld.snaps)
             new_snap == collect_snapshot(hw, mnt, next_run)
             ap == AppendSnap(ld.snaps, ld.ret, new_snap)
             oob == ap.slot < 0 \/ ap.slot >= MAX_SNAPSHOTS
             sv == save_history(mnt, fp.fs, fp.path, ld.hdr, ap.snaps,
                                ap.count, io, ub)
             base == [NoRes EXCEPT !.op = "save", !.path = fp.path,
                        !.loaded = ld.ret, !.mem = Loaded(ld.snaps, ld.ret),
                        !.next_run = next_run, !.new_snap = new_snap,
                        !.out = Loaded(ap.snaps, ap.count),
                        !.idx = {ap.slot} \cup
                                (IF ld.ret > 0 THEN {ld.ret - 1} ELSE {})]
         IN IF oob /\ ub = "trap"
            THEN [fs |-> fp.fs,
                  res |-> [base EXCEPT !.crashed = TRUE, !.count = ld.ret,
                             !.ui = <<"Saving diagnostic snapshot">>]]
            ELSE IF sv.trap
            THEN [fs |-> sv.fs,
                  res |-> [base EXCEPT !.crashed = TRUE, !.count = ap.count,
                             !.io = sv.io,
                             !.ui = <<"Saving diagnostic snapshot">>]]
            ELSE [fs |-> sv.fs,
                  res |-> [base EXCEPT !.count = ap.count, !.io = sv.io,
                             !.ui = <<"Saving diagnostic snapshot",
                                      "ok: Snapshot saved">>]]

\* ------------------------------------------------------------ run_history
\* show_trend: the indicator chosen for (int)old_val -> (int)new_val
show_trend(old_val, new_val, higher_is_worse) ==
    IF old_val = new_val THEN "(unchanged)"
    ELSE IF (new_val > old_val) = higher_is_worse THEN "(WORSE)"
    ELSE "(improved)"

Trends_skip_on_sentinel_only(prev, curr) ==
    <<[label |-> "NAND Clusters Used",
       ind |-> show_trend(prev.nand_clusters_used, curr.nand_clusters_used, TRUE)],
      [label |-> "NAND Inodes Used",
       ind |-> show_trend(prev.nand_inodes_used, curr.nand_inodes_used, TRUE)]>>
    \o (IF prev.nand_health_score # -1 /\ curr.nand_health_score # -1
        THEN <<[label |-> "Health Score",
                ind |-> show_trend(prev.nand_health_score,
                                   curr.nand_health_score, FALSE)]>>
        ELSE <<>>)
    \o
    <<[label |-> "Total IOS",
       ind |-> show_trend(prev.ios_total, curr.ios_total, FALSE)],
      [label |-> "Stub IOS",
       ind |-> show_trend(prev.ios_stubs, curr.ios_stubs, TRUE)]>>

Trends_health_higher_is_worse(prev, curr) ==
    <<[label |-> "NAND Clusters Used",
       ind |-> show_trend(prev.nand_clusters_used, curr.nand_clusters_used, TRUE)],
      [label |-> "NAND Inodes Used",
       ind |-> show_trend(prev.nand_inodes_used, curr.nand_inodes_used, TRUE)]>>
    \o (IF prev.nand_health_score >= 0 /\ curr.nand_health_score >= 0
        THEN <<[label |-> "Health Score",
                ind |-> show_trend(prev.nand_health_score,
                                   curr.nand_health_score, TRUE)]>>
        ELSE <<>>)
    \o
    <<[label |-> "Total IOS",
       ind |-> show_trend(prev.ios_total, curr.ios_total, FALSE)],
      [label |-> "Stub IOS",
       ind |-> show_trend(prev.ios_stubs, curr.ios_stubs, TRUE)]>>

\* "Comparison with previous snapshot": the show_trend lines, in order
Trends(prev, curr) ==
    <<[label |-> "NAND Clusters Used",
       ind |-> show_trend(prev.nand_clusters_used, curr.nand_clusters_used, TRUE)],
      [label |-> "NAND Inodes Used",
       ind |-> show_trend(prev.nand_inodes_used, curr.nand_inodes_used, TRUE)]>>
    \o (IF prev.nand_health_score >= 0 /\ curr.nand_health_score >= 0
        THEN <<[label |-> "Health Score",
                ind |-> show_trend(prev.nand_health_score,
                                   curr.nand_health_score, FALSE)]>>
        ELSE <<>>)
    \o
    <<[label |-> "Total IOS",
       ind |-> show_trend(prev.ios_total, curr.ios_total, FALSE)],
      [label |-> "Stub IOS",
       ind |-> show_trend(prev.ios_stubs, curr.ios_stubs, TRUE)]>>

Alerts_health_at_boundary(prev, curr) ==
    (IF U32Greater(curr.nand_clusters_used,
                   U32Add(prev.nand_clusters_used, 100))
     THEN {"NAND usage increased significantly since last run!"} ELSE {})
    \cup
    (IF /\ curr.nand_health_score >= 0
        /\ prev.nand_health_score >= 0
        /\ curr.nand_health_score <= prev.nand_health_score - 10
     THEN {"Health score dropped significantly!"} ELSE {})
    \cup
    (IF U32Greater(curr.ios_stubs, prev.ios_stubs)
     THEN {"More stub IOS detected than before."} ELSE {})

Alerts_stub_unless_usage(prev, curr) ==
    IF U32Greater(curr.nand_clusters_used,
                  U32Add(prev.nand_clusters_used, 100))
    THEN {"NAND usage increased significantly since last run!"}
    ELSE IF U32Greater(curr.ios_stubs, prev.ios_stubs)
    THEN {"More stub IOS detected than before."}
    ELSE {}

\* "Flag significant degradation"
Alerts(prev, curr) ==
    (IF U32Greater(curr.nand_clusters_used,
                   U32Add(prev.nand_clusters_used, 100))
     THEN {"NAND usage increased significantly since last run!"} ELSE {})
    \cup
    (IF /\ curr.nand_health_score >= 0
        /\ prev.nand_health_score >= 0
        /\ curr.nand_health_score < prev.nand_health_score - 10
     THEN {"Health score dropped significantly!"} ELSE {})
    \cup
    (IF U32Greater(curr.ios_stubs, prev.ios_stubs)
     THEN {"More stub IOS detected than before."} ELSE {})

\* one line of the "Health Score Timeline"
TimelineRow(s) ==
    [run |-> s.run_number, clusters |-> s.nand_clusters_used,
     inodes |-> s.nand_inodes_used,
     color |-> IF s.nand_health_score >= 80 THEN "BGREEN"
               ELSE IF s.nand_health_score >= 50 THEN "BYELLOW" ELSE "BRED",
     fmt |-> "%d/100", score |-> s.nand_health_score]

TimelineStart_last_nine(count) == IF count > 10 THEN count - 9 ELSE 0

\* "History timeline (compact, last 10)": first C index shown
TimelineStart(count) == IF count > 10 THEN count - 10 ELSE 0

Timeline(snaps, count) ==
    IF count > 1
    THEN [k \in 1..(count - TimelineStart(count)) |->
            TimelineRow(snaps[TimelineStart(count) + k])]
    ELSE <<>>

\* run_history.  g: what the uninitialised locals hold; ub: what the read
\* of snaps[count - 1] outside the array does ("trap": the program is
\* stopped; otherwise it reads whatever lies there and goes on).
run_history(mnt, fs, g, ub) ==
    LET fp == find_history_path(mnt, fs)
    IN IF fp.path = NoPath
       THEN [fs |-> fp.fs,
             res |-> [NoRes EXCEPT !.op = "review",
                        !.ui = <<"err: No history file found on SD or USB">>]]
       ELSE
         LET ld == load_history(CanOpenRead(mnt, fp.fs, fp.path),
                                fp.fs[fp.path].data, g.hdr, StackSnaps(g),
                                MAX_SNAPSHOTS)
             count == ld.ret
             base == [NoRes EXCEPT !.op = "review", !.path = fp.path,
                        !.loaded = count, !.count = count,
                        !.mem = Loaded(ld.snaps, count)]
         IN IF count = 0
            THEN [fs |-> fp.fs,
                  res |-> [base EXCEPT
                             !.ui = <<"warn: History file is empty or corrupted">>]]
            ELSE IF count < 0
            THEN [fs |-> fp.fs,
                  res |-> IF ub = "trap"
                          THEN [base EXCEPT !.crashed = TRUE,
                                  !.idx = {S32Dec(count)},
                                  !.ui = <<"snapshot(s) on record">>]
                          ELSE [base EXCEPT !.idx = {S32Dec(count)},
                                  !.ui = <<"snapshot(s) on record",
                                           "Only 1 snapshot recorded",
                                           "ok: History review complete">>]]
            ELSE [fs |-> fp.fs,
                  res |-> [base EXCEPT
                     !.idx = {count - 1}
                             \cup (IF count >= 2 THEN {count - 2} ELSE {})
                             \cup (IF count > 1
                                   THEN TimelineStart(count)..(count - 1)
                                   ELSE {}),
                     !.trends = IF count >= 2
                                THEN Trends(ld.snaps[count - 1], ld.snaps[count])
                                ELSE <<>>,
                     !.alerts = IF count >= 2
                                THEN Alerts(ld.snaps[count - 1], ld.snaps[count])
                                ELSE {},
                     !.rows = Timeline(ld.snaps, count),
                     !.ui = <<"snapshot(s) on record">>
                            \o (IF count >= 2
                                THEN <<"Changes Since Previous Run">>
                                ELSE <<"Only 1 snapshot recorded">>)
                            \o (IF count > 1
                                THEN <<"Health Score Timeline">> ELSE <<>>)
                            \o <<"ok: History review complete">>]]

\* ------------------------------------------------------------ environment
\* what the uninitialised locals may hold
Garbage ==
    {[hdr |-> [magic |-> 0, version |-> 0, count |-> 0, reserved |-> 0],
      snap |-> ZeroSnap],
     [hdr |-> [magic |-> 77, version |-> 77, count |-> 77, reserved |-> 77],
      snap |-> SnapFromCells([j \in 1..SnapCells |-> 77])]}

IOs == {"ok", "short"}
UBs == {"trap", "late", "silent"}
MountStates == {"none", "ro", "rw"}

Title(lower, ver, n) ==
    [upper |-> 1, lower |-> lower, tmd_ok |-> TRUE, title_version |-> ver,
     num_contents |-> n]

\* readings of the probes collect_snapshot calls
HwStates ==
    {[isfs_ok |-> TRUE, usage_ok |-> TRUE,
      used_bytes |-> 500, used_inodes |-> 1000,
      es_ok |-> TRUE,
      titles |-> <<Title(2, 514, 9), Title(36, 3608, 5), Title(249, 0, 3)>>,
      hollywood_rev |-> 33, boot2_ver |-> 4, gc_ports |-> 1, wiimotes |-> 1],
     [isfs_ok |-> FALSE, usage_ok |-> FALSE,
      used_bytes |-> 0, used_inodes |-> 0,
      es_ok |-> FALSE, titles |-> <<>>,
      hollywood_rev |-> 33, boot2_ver |-> 4, gc_ports |-> 0, wiimotes |-> 0],
     [isfs_ok |-> TRUE, usage_ok |-> TRUE,
      used_bytes |-> 2000, used_inodes |-> 5500,
      es_ok |-> TRUE,
      titles |-> <<Title(36, 3608, 5), Title(58, 6176, 0), Title(222, 4, 3),
                   [Title(80, 6944, 4) EXCEPT !.tmd_ok = FALSE]>>,
      hollywood_rev |-> 33, boot2_ver |-> 4, gc_ports |-> 0, wiimotes |-> 2]}

\* a stored record as an earlier run may have written it
Rec(run, clusters, health, stubs) ==
    [ZeroSnap EXCEPT !.run_number = run, !.nand_clusters_used = clusters,
       !.nand_inodes_used = 1000, !.nand_health_score = health,
       !.ios_total = 30, !.ios_stubs = stubs, !.hollywood_rev = 33,
       !.boot2_ver = 4, !.has_sd = 1]

\* n records numbered first, first + 1, ...
Recs(n, first) ==
    [i \in 1..n |-> Rec(first + i - 1, 500 + 10 * i, 100, 2)]

\* a file: a header of the four given words followed by the records' cells
MkFile(magic, version, count, reserved, recs) ==
    FileOf(<<magic, version, count, reserved>> \o Flatten(recs, Len(recs)))

\* the first n cells of a file
Cut(f, n) == FileOf(SubSeq(f.data, 1, n))

ValidFile(count, recs) == MkFile(HISTORY_MAGIC, HISTORY_VERSION, count, 0, recs)

\* history files the SD card may hold when the program starts
InitSdFiles ==
    {NoFile,
     FileOf(<<>>),
     Cut(ValidFile(1, Recs(1, 1)), 2),
     MkFile(HISTORY_MAGIC + 1, HISTORY_VERSION, 1, 5, Recs(1, 1)),
     MkFile(HISTORY_MAGIC, 2, 2, 0, Recs(2, 1)),
     MkFile(HISTORY_MAGIC, 0, -1, 0, <<>>),
     ValidFile(0, <<>>),
     ValidFile(1, Recs(1, 1)),
     ValidFile(2, Recs(2, 7)),
     ValidFile(49, Recs(49, 1)),
     ValidFile(50, Recs(50, 4)),
     ValidFile(51, Recs(51, 1)),
     ValidFile(1, Recs(3, 1)),
     Cut(ValidFile(2, Recs(2, 5)), HdrCells + SnapCells + 2),
     ValidFile(3, Recs(1, 9)),
     ValidFile(MinS32, Recs(1, 1)),
     ValidFile(-1, Recs(1, 1)),
     ValidFile(MaxS32, Recs(2, 1)),
     ValidFile(1, <<Rec(-1, 500, 100, 2)>>),
     ValidFile(2, <<Rec(8, 500, 100, 2), Rec(3, 650, 85, 3)>>)}

InitUsbFiles ==
    {NoFile,
     ValidFile(1, Recs(1, 3)),
     MkFile(0, HISTORY_VERSION, 1, 0, Recs(1, 1))}

\* readings of ISFS_Initialize / ISFS_GetUsage around every threshold of
\* the health score, up to the largest u32
ClusterSamples ==
    {0, 1535, 1536, 1537, 1740, 1741, 1945, 1946, 2048, MaxS32, MinS32, -1}

InodeSamples ==
    {0, 4607, 4608, 5221, 5222, 5835, 5836, 6143, -1}

ProbeStates ==
    {[isfs_ok |-> i, usage_ok |-> u, used_bytes |-> b, used_inodes |-> n,
      es_ok |-> FALSE, titles |-> <<>>, hollywood_rev |-> 33,
      boot2_ver |-> 4, gc_ports |-> 0, wiimotes |-> 0] :
        i \in BOOLEAN, u \in BOOLEAN, b \in ClusterSamples,
        n \in InodeSamples}

\* stored records to compare: clusters used, health score and stub count
\* vary independently; inodes used and the IOS total follow them
TrendClusters == {500, 600, 601, 650, -50, -1}
TrendScores == {-2, -1, 69, 70, 80}
TrendStubs == {2, 3, -1}

TrendRec(run, c, h, st) ==
    [Rec(run, c, h, st) EXCEPT
       !.nand_inodes_used = IF c = 500 THEN 1000 ELSE IF c = 650 THEN 900
                            ELSE 1100,
       !.ios_total = IF h = 80 THEN 30 ELSE IF h = 70 THEN 31 ELSE 29]

TrendFiles ==
    {ValidFile(2, <<TrendRec(1, c1, h1, s1), TrendRec(2, c2, h2, s2)>>) :
        c1 \in TrendClusters, h1 \in TrendScores, s1 \in TrendStubs,
        c2 \in TrendClusters, h2 \in TrendScores, s2 \in TrendStubs}

\* histories of every length around the timeline's limit of 10 rows, with
\* all scores 100 or with scores cycling through -1 (unknown), 45, 70, 85
TimelineLengths == (0..16) \cup {MAX_SNAPSHOTS - 1, MAX_SNAPSHOTS}

TimelineRec(i, mixed) ==
    Rec(i + 2, 500 + 10 * i,
        IF ~mixed THEN 100
        ELSE IF i % 4 = 0 THEN -1 ELSE IF i % 4 = 1 THEN 45
        ELSE IF i % 4 = 2 THEN 70 ELSE 85,
        2)

TimelineFiles ==
    {ValidFile(n, [i \in 1..n |-> TimelineRec(i, mixed)]) :
        n \in TimelineLengths, mixed \in BOOLEAN}

\* ------------------------------------------------------------------ state
VARIABLES
    mount,   \* per device: "none" (not mounted), "ro" (write-protected), "rw";
             \* any combination may be met at start, none changes in a session
    files,   \* per device: the history file
    hw,      \* what the probes currently report
    res,     \* what the last operation showed and did
    nOps     \* operations run so far

vars == <<mount, files, hw, res, nOps>>

TypeOK ==
    /\ mount \in [Loc -> MountStates]
    /\ DOMAIN files = Loc
    /\ hw \in HwStates \cup ProbeStates
    /\ nOps \in Nat

Init ==
    /\ mount \in [Loc -> MountStates]
    /\ \E s \in InitSdFiles, u \in InitUsbFiles :
          files = [l \in Loc |-> IF l = "sd" THEN s ELSE u]
    /\ hw \in HwStates
    /\ res = NoRes
    /\ nOps = 0

\* the user runs "Generate Full Report" / "System Checkup"
Save ==
    /\ nOps < MaxOps
    /\ \E g \in Garbage, io \in IOs, ub \in UBs :
          LET r == history_save_snapshot(mount, files, hw, g, io, ub)
          IN /\ files' = r.fs
             /\ res' = r.res
    /\ nOps' = nOps + 1
    /\ UNCHANGED <<mount, hw>>

\* the user opens the history screen
Review ==
    /\ nOps < MaxOps
    /\ \E g \in Garbage, ub \in UBs :
          LET r == run_history(mount, files, g, ub)
          IN /\ files' = r.fs
             /\ res' = r.res
    /\ nOps' = nOps + 1
    /\ UNCHANGED <<mount, hw>>

Next == Save \/ Review

Spec == Init /\ [][Next]_vars

\* ---- sequential saves onto empty, writable storage
InitFresh ==
    /\ mount \in {m \in [Loc -> MountStates] : \E l \in Loc : m[l] = "rw"}
    /\ files = [l \in Loc |-> NoFile]
    /\ hw \in HwStates
    /\ res = NoRes
    /\ nOps = 0

SaveOk ==
    /\ nOps < MaxSaves
    /\ \E g \in Garbage, ub \in UBs :
          LET r == history_save_snapshot(mount, files, hw, g, "ok", ub)
          IN /\ files' = r.fs
             /\ res' = r.res
    /\ nOps' = nOps + 1
    /\ UNCHANGED <<mount, hw>>

\* the console's state changes between two runs
HwChange ==
    /\ nOps < MaxVaried
    /\ \E h \in HwStates : h # hw /\ hw' = h
    /\ UNCHANGED <<mount, files, res, nOps>>

NextFresh == SaveOk \/ HwChange

SpecFresh == InitFresh /\ [][NextFresh]_vars

\* ---- saves under every probe reading, onto an empty writable SD card
InitProbe ==
    /\ mount = [l \in Loc |-> IF l = "sd" THEN "rw" ELSE "none"]
    /\ files = [l \in Loc |-> NoFile]
    /\ hw \in ProbeStates
    /\ res = NoRes
    /\ nOps = 0

SpecProbe == InitProbe /\ [][Next]_vars

\* ---- reviews of every pair of stored records
InitTrend ==
    /\ mount = [l \in Loc |-> IF l = "sd" THEN "rw" ELSE "none"]
    /\ \E f \in TrendFiles :
          files = [l \in Loc |-> IF l = "sd" THEN f ELSE NoFile]
    /\ hw \in {h \in HwStates : ~h.isfs_ok}
    /\ res = NoRes
    /\ nOps = 0

NextTrend == Review

\* ---- reviews of histories of every length
InitTimeline ==
    /\ mount \in {[l \in Loc |-> IF l = "sd" THEN m ELSE "none"] :
                    m \in {"ro", "rw"}}
    /\ \E f \in TimelineFiles :
          files = [l \in Loc |-> IF l = "sd" THEN f ELSE NoFile]
    /\ hw \in {h \in HwStates : ~h.isfs_ok}
    /\ res = NoRes
    /\ nOps = 0

NextTimeline == Review

SpecTimeline == InitTimeline /\ [][NextTimeline]_vars

SpecTrend == InitTrend /\ [][NextTrend]_vars

\* ================================================================= claims
\* reading a file's cells directly
FileCount(f) == f.data[3]
FileRecs(f) == (Len(f.data) - HdrCells) \div SnapCells
FileRun(f, i) == f.data[HdrCells + SnapCells * (i - 1) + 1]
HasHeader(f) == f.exists /\ Len(f.data) >= HdrCells
ValidHeader(f) ==
    HasHeader(f) /\ f.data[1] = HISTORY_MAGIC /\ f.data[2] = HISTORY_VERSION
WholeFile(f, n) == f.exists /\ Len(f.data) = HdrCells + SnapCells * n

\* an operation ran in this step
OpStep == nOps' = nOps + 1
Saved == "ok: Snapshot saved"
Min(a, b) == IF a < b THEN a ELSE b
Max(a, b) == IF a > b THEN a ELSE b

\* C1: from empty writable storage, after N saves the file at the resolved
\* location holds min(N, 50) records numbered max(1, N - 49) .. N, oldest
\* first.
C1_SequentialSaves ==
    nOps >= 1 =>
      LET f == files[res.path]
          n == Min(nOps, MAX_SNAPSHOTS)
          first == Max(1, nOps - (MAX_SNAPSHOTS - 1))
      IN /\ res.path # NoPath
         /\ WholeFile(f, n)
         /\ FileCount(f) = n
         /\ \A i \in 1..n : FileRun(f, i) = first + i - 1

C1_Witness ==
    /\ nOps = 53
    /\ res.op = "save"
    /\ FileRecs(files[res.path]) = 50
    /\ FileRun(files[res.path], 1) = 4
    /\ FileRun(files[res.path], 50) = 53

\* C2: the number of records in memory after a load, the number of records
\* a save writes and the count it writes to the header never exceed 50.
C2_AtMost50 ==
    res.op \in {"save", "review"} /\ res.path # NoPath =>
      /\ res.loaded <= MAX_SNAPSHOTS
      /\ Len(res.mem) <= MAX_SNAPSHOTS
      /\ res.io \in {"ok", "short"} =>
           /\ FileRecs(files[res.path]) <= MAX_SNAPSHOTS
           /\ ~U32Greater(FileCount(files[res.path]), MAX_SNAPSHOTS)

\* C3: a save never stores a record whose run_number (u32) is less than or
\* equal to the run_number of the record stored immediately before it.
C3_RunNumbersIncrease ==
    res.op = "save" /\ res.io = "ok" /\ res.count >= 2 =>
      LET f == files[res.path]
      IN U32Less(FileRun(f, res.count - 1), FileRun(f, res.count))

\* the number assigned, against the records the load left in memory
C4_NextRunState ==
    res.op = "save" /\ res.path # NoPath =>
      /\ res.new_snap.run_number = res.next_run
      /\ Len(res.mem) = 0 => res.next_run = 1
      /\ Len(res.mem) > 0 =>
           res.next_run = U32Add(res.mem[Len(res.mem)].run_number, 1)

\* a save onto a location whose file is missing, shorter than a header or
\* of the wrong magic/version
C4_NextRunStep ==
    OpStep /\ res'.op = "save" /\ res'.path # NoPath
      /\ ~ValidHeader(files[res'.path]) =>
        /\ res'.next_run = 1
        /\ res'.io = "ok" =>
             /\ WholeFile(files'[res'.path], 1)
             /\ FileCount(files'[res'.path]) = 1
             /\ FileRun(files'[res'.path], 1) = 1

\* C4: the run_number a save assigns is 1 when nothing was loaded and
\* otherwise the last loaded record's run_number + 1 (u32); and a save onto
\* a location whose file is missing, shorter than a header or of the wrong
\* magic/version persists exactly one record, numbered 1.
C4_NextRun == [](C4_NextRunState) /\ [][C4_NextRunStep]_vars

\* a save onto the file of wrong magic (the only one whose reserved word is
\* 5) that left one record numbered 1
C4_Witness ==
    /\ res.op = "save"
    /\ res.io = "ok"
    /\ res.next_run = 1
    /\ files[res.path].data[4] = 5
    /\ FileRecs(files[res.path]) = 1

\* an operation on a file whose header has the wrong magic or version
C5_BadHeaderStep ==
    OpStep /\ res'.path # NoPath
      /\ HasHeader(files[res'.path])
      /\ ~ValidHeader(files[res'.path]) =>
        /\ res'.loaded = 0
        /\ ~res'.crashed
        /\ res'.op = "review" =>
             /\ res'.ui = <<"warn: History file is empty or corrupted">>
             /\ res'.rows = <<>> /\ res'.trends = <<>>
        /\ res'.op = "save" =>
             /\ res'.next_run = 1
             /\ res'.out = <<res'.new_snap>>
             /\ Saved \in {res'.ui[k] : k \in DOMAIN res'.ui}

\* C5: a file whose header magic or version is not the expected one loads
\* as an empty store whatever follows the header, and neither operation
\* fails: review reports an empty history, save goes on as from an empty
\* store.
C5_BadHeaderIsEmpty == [][C5_BadHeaderStep]_vars

C5_Witness ==
    /\ res.op = "review"
    /\ res.path # NoPath
    /\ res.loaded = 0
    /\ HasHeader(files[res.path])
    /\ files[res.path].data[2] # HISTORY_VERSION
    /\ FileRecs(files[res.path]) = 2

\* C6: for a file with valid magic and version, load returns
\* min(header.count, 50), header.count being a 32-bit unsigned value.
C6_ClampedCount ==
    res.op = "review" /\ res.path # NoPath /\ ValidHeader(files[res.path]) =>
      res.loaded = (IF U32Greater(FileCount(files[res.path]), MAX_SNAPSHOTS)
                    THEN MAX_SNAPSHOTS ELSE FileCount(files[res.path]))

\* C7: loading the file save_history wrote for the records R returns R, and
\* writing the loaded result again gives the same file.
C7_RoundTrip ==
    res.op = "save" /\ res.io = "ok" =>
      \A g \in Garbage :
        LET f == files[res.path]
            ld == load_history(TRUE, f.data, g.hdr, StackSnaps(g),
                               MAX_SNAPSHOTS)
        IN /\ ld.ret = Len(res.out)
           /\ Loaded(ld.snaps, ld.ret) = res.out
           /\ Encode(ld.hdr, ld.snaps, ld.ret) = f.data

C7_Witness ==
    /\ res.op = "save"
    /\ res.io = "ok"
    /\ Len(res.out) = MAX_SNAPSHOTS
    /\ res.out[1].has_usb # res.out[MAX_SNAPSHOTS].has_usb

\* C8: when the history cannot be persisted (the file cannot be opened for
\* writing, or the write fails), the save does not report the snapshot as
\* saved.
C8_FailureReported ==
    res.op = "save" /\ res.io \in {"openfail", "short"} =>
      Saved \notin {res.ui[k] : k \in DOMAIN res.ui}

\* a review step keeps both files
C9_ReviewStep == OpStep /\ res'.op = "review" => files' = files

\* C9: a review leaves the existence and the contents of the history file
\* at both locations unchanged.
C9_ReviewOnlyReads == [][C9_ReviewStep]_vars

\* the path an operation resolved, against the devices and files it met
C10_PathStep ==
    OpStep =>
      LET r(l) == mount[l] # "none" /\ files[l].exists
          w(l) == mount[l] = "rw"
          p == res'.path
      IN /\ r("sd") => p = "sd"
         /\ ~r("sd") /\ r("usb") => p = "usb"
         /\ ~r("sd") /\ ~r("usb") /\ w("sd") => p = "sd"
         /\ ~r("sd") /\ ~r("usb") /\ ~w("sd") /\ w("usb") => p = "usb"
         /\ p = NoPath <=> ~r("sd") /\ ~r("usb") /\ ~w("sd") /\ ~w("usb")

\* C10: the path resolved is the first candidate (SD, then USB) whose file
\* exists; if neither exists, the first that can be opened for writing;
\* none only when neither is readable or writable.
C10_ResolvePath == [][C10_PathStep]_vars

\* the USB file that exists was preferred to creating one on a writable SD
C10_Witness ==
    /\ res.op # "none"
    /\ res.path = "usb"
    /\ mount["sd"] = "rw"
    /\ ~files["sd"].exists

\* ---------------------------------------------------------------- C11
NoStorageSave == "warn: No storage available for history tracking"
NoStorageReview == "err: No history file found on SD or USB"
EmptyStore == "warn: History file is empty or corrupted"

\* message m is among the messages of result r
Shown(r, m) == \E i \in 1..Len(r.ui) : r.ui[i] = m

\* a candidate location is readable (its file can be opened) or writable
Available(l) ==
    (mount[l] # "none" /\ files[l].exists) \/ mount[l] = "rw"

C11_NoStorageStep ==
    OpStep =>
      LET none == \A l \in Loc : ~Available(l)
          r == res'
      IN /\ none /\ r.op = "save" =>
              /\ r.ui = <<NoStorageSave>>
              /\ r.new_snap = ZeroSnap /\ r.next_run = 0
              /\ ~Shown(r, "Saving diagnostic snapshot")
              /\ r.io = "none"
              /\ files' = files
         /\ none /\ r.op = "review" =>
              /\ r.ui = <<NoStorageReview>>
              /\ files' = files
         /\ ~none => ~Shown(r, NoStorageSave) /\ ~Shown(r, NoStorageReview)

\* C11: when neither candidate location is readable or writable, save and
\* review each end with the "no storage" message and nothing else (so not
\* with the "empty store" message), and save collects no snapshot and
\* leaves every file as it was; when a location is available the
\* "no storage" message is never shown.
C11_NoStorage == [][C11_NoStorageStep]_vars

\* a save ended with "no storage" although a device is mounted (read-only,
\* without a file)
C11_Witness ==
    /\ res.op = "save"
    /\ res.ui = <<NoStorageSave>>
    /\ NoStorageSave # EmptyStore /\ NoStorageReview # EmptyStore
    /\ mount["sd"] = "ro"
    /\ \A l \in Loc : ~Available(l)

\* ---------------------------------------------------------------- C12
\* C12: after a save whose writes all succeeded, the file at the resolved
\* path is the header (magic, version 1, count = number of records in
\* memory) followed by exactly those records and nothing else.
C12_FileIsEncoding ==
    res.op = "save" /\ res.io = "ok" =>
      LET f == files[res.path]
          n == Len(res.out)
      IN /\ f.exists
         /\ Len(f.data) = HdrCells + SnapCells * n
         /\ f.data[1] = HISTORY_MAGIC
         /\ f.data[2] = HISTORY_VERSION
         /\ f.data[3] = n
         /\ \A i \in 1..n :
               SubSeq(f.data, HdrCells + SnapCells * (i - 1) + 1,
                      HdrCells + SnapCells * i) = SnapToCells(res.out[i])

\* a save onto a full history: 50 records loaded, 50 written
C12_Witness ==
    /\ res.op = "save" /\ res.io = "ok"
    /\ res.loaded = MAX_SNAPSHOTS
    /\ Len(res.out) = MAX_SNAPSHOTS
    /\ WholeFile(files[res.path], MAX_SNAPSHOTS)

\* ---------------------------------------------------------------- C13
\* C13: every save whose writes all succeeded leaves 0 in the reserved
\* field of the header.
C13_ReservedZero ==
    res.op = "save" /\ res.io = "ok" => files[res.path].data[4] = 0

\* ---------------------------------------------------------------- C14
\* the deduction for a used count (a u32) of a capacity, the thresholds
\* given as the least counts above 95, 85 and 75 percent
Deduction(used, over95, over85, over75) ==
    IF ~U32Less(used, over95) THEN 30
    ELSE IF ~U32Less(used, over85) THEN 15
    ELSE IF ~U32Less(used, over75) THEN 5 ELSE 0

\* 100 less the two deductions, not below 0.  Of 2048 clusters 1946 is the
\* least count above 95 percent, 1741 above 85, 1537 above 75; of 6143
\* inodes 5836, 5222 and 4608.
ExpectedScore(clusters, inodes) ==
    Max(0, 100 - Deduction(clusters, 1946, 1741, 1537)
               - Deduction(inodes, 5836, 5222, 4608))

\* C14: when the usage probe succeeds, the health score collected is 100
\* less 30/15/5 for clusters used above 95/85/75 percent of 2048, less
\* 30/15/5 for inodes used above 95/85/75 percent of 6143, not below 0,
\* for every pair of counts.
C14_HealthScore ==
    res.op = "save" /\ res.path # NoPath /\ hw.isfs_ok /\ hw.usage_ok =>
      /\ res.new_snap.nand_clusters_used = hw.used_bytes
      /\ res.new_snap.nand_inodes_used = hw.used_inodes
      /\ res.new_snap.nand_health_score =
             ExpectedScore(hw.used_bytes, hw.used_inodes)

\* both deductions are 30: the largest u32 of clusters, 5836 inodes
C14_Witness ==
    /\ res.op = "save" /\ res.io = "ok"
    /\ hw.isfs_ok /\ hw.usage_ok
    /\ hw.used_bytes = -1 /\ hw.used_inodes = 5836
    /\ res.new_snap.nand_health_score = 40

\* ---------------------------------------------------------------- C15
\* C15: the health score of a collected record is -1 or in 0..100, and is
\* -1 exactly when the usage probe failed.
C15_SentinelIffProbeFailed ==
    res.op = "save" /\ res.path # NoPath =>
      LET h == res.new_snap.nand_health_score
      IN /\ h = -1 \/ h \in 0..100
         /\ h = -1 <=> ~(hw.isfs_ok /\ hw.usage_ok)

\* ------------------------------------------------------- C16 .. C20
\* a review that compared the two latest records of the history
Compared == res.op = "review" /\ ~res.crashed /\ res.loaded >= 2
Prev == res.mem[res.loaded - 1]
Curr == res.mem[res.loaded]

\* the indicators review showed under a label
IndicatorsOf(label) ==
    {res.trends[i].ind : i \in {j \in 1..Len(res.trends) :
                                  res.trends[j].label = label}}

UsageAlert == "NAND usage increased significantly since last run!"
HealthAlert == "Health score dropped significantly!"
StubAlert == "More stub IOS detected than before."

\* Unchanged / Worse / Improved for two values of an unsigned metric
ClassifyU32(old, new, higher_is_worse) ==
    IF old = new THEN "(unchanged)"
    ELSE IF U32Greater(new, old) = higher_is_worse THEN "(WORSE)"
    ELSE "(improved)"

\* C16: for each compared metric review reports Unchanged when the two
\* values are equal, Worse when the value rose (clusters used, inodes
\* used, stubs) or fell (total IOS), and Improved otherwise.
C16_TrendDirections ==
    Compared =>
      /\ IndicatorsOf("NAND Clusters Used") =
            {ClassifyU32(Prev.nand_clusters_used, Curr.nand_clusters_used,
                         TRUE)}
      /\ IndicatorsOf("NAND Inodes Used") =
            {ClassifyU32(Prev.nand_inodes_used, Curr.nand_inodes_used, TRUE)}
      /\ IndicatorsOf("Total IOS") =
            {ClassifyU32(Prev.ios_total, Curr.ios_total, FALSE)}
      /\ IndicatorsOf("Stub IOS") =
            {ClassifyU32(Prev.ios_stubs, Curr.ios_stubs, TRUE)}

\* C17 as stated: a health-score classification is emitted if and only if
\* neither score is the -1 sentinel.
C17_EmittedIffNoSentinel ==
    Compared =>
      (IndicatorsOf("Health Score") # {}
         <=> Prev.nand_health_score # -1 /\ Curr.nand_health_score # -1)

\* C17: a health-score classification is emitted if and only if both
\* scores are 0 or more; when either is negative (the -1 sentinel
\* included) none is emitted, whatever the other value is.
C17_EmittedIffBothValid ==
    Compared =>
      /\ IndicatorsOf("Health Score") # {}
            <=> Prev.nand_health_score >= 0 /\ Curr.nand_health_score >= 0
      /\ Prev.nand_health_score = -1 \/ Curr.nand_health_score = -1
            => IndicatorsOf("Health Score") = {}

\* the previous score is the sentinel, the latest is 80: not classified,
\* the other four metrics are
C17_Witness ==
    /\ Compared
    /\ Prev.nand_health_score = -1 /\ Curr.nand_health_score = 80
    /\ IndicatorsOf("Health Score") = {}
    /\ Len(res.trends) = 4

\* C18 as stated: the health-regression alert fires if and only if neither
\* score is the -1 sentinel and the latest is less than the previous - 10.
C18_AlertIffNoSentinel ==
    Compared =>
      (HealthAlert \in res.alerts
         <=> /\ Prev.nand_health_score # -1
             /\ Curr.nand_health_score # -1
             /\ Curr.nand_health_score < Prev.nand_health_score - 10)

\* C18: the health-regression alert fires if and only if both scores are 0
\* or more and the latest is less than the previous - 10: 80 then 70 does
\* not fire, 80 then 69 fires.
C18_AlertIffBothValid ==
    Compared =>
      /\ HealthAlert \in res.alerts
            <=> /\ Prev.nand_health_score >= 0
                /\ Curr.nand_health_score >= 0
                /\ Curr.nand_health_score < Prev.nand_health_score - 10
      /\ Prev.nand_health_score = 80 /\ Curr.nand_health_score = 70
            => HealthAlert \notin res.alerts
      /\ Prev.nand_health_score = 80 /\ Curr.nand_health_score = 69
            => HealthAlert \in res.alerts

\* 80 then 69: the alert fired
C18_Witness ==
    /\ Compared
    /\ Prev.nand_health_score = 80 /\ Curr.nand_health_score = 69
    /\ HealthAlert \in res.alerts

\* new > old + 100 for two u32 values, as mathematical integers: old + 100
\* does not wrap for old up to 2^32 - 101, and above that nothing exceeds it
ExceedsBy100(new, old) ==
    IF old >= -100 /\ old <= -1 THEN FALSE
    ELSE U32Greater(new, U32Add(old, 100))

\* C19: the usage-growth alert fires if and only if the latest clusters
\* used exceed the previous clusters used + 100 as mathematical integers,
\* for every pair of stored u32 values.
C19_UsageAlertExact ==
    Compared =>
      (UsageAlert \in res.alerts
         <=> ExceedsBy100(Curr.nand_clusters_used, Prev.nand_clusters_used))

\* C20: the new-stub alert fires if and only if the latest stub count is
\* greater than the previous one, whatever classifications were emitted
\* and whichever other alerts fired.
C20_StubAlert ==
    Compared =>
      (StubAlert \in res.alerts
         <=> U32Greater(Curr.ios_stubs, Prev.ios_stubs))

\* stubs rose from 2 to 3 and the stub alert fired together with the usage
\* alert, with no health classification emitted
C20_Witness ==
    /\ Compared
    /\ Prev.ios_stubs = 2 /\ Curr.ios_stubs = 3
    /\ res.alerts = {UsageAlert, StubAlert}
    /\ IndicatorsOf("Health Score") = {}

\* ------------------------------------------------------- C21, C22
\* a review that loaded a history of L >= 0 records
Reviewed == res.op = "review" /\ ~res.crashed /\ res.loaded >= 0

\* C21: for a loaded history of length L the timeline has no rows when
\* L <= 1 and otherwise exactly min(10, L) rows, one per record, for the
\* last min(10, L) records in stored order; for 15 records, 10 rows
\* matching records 6..15.
C21_TimelineRows ==
    Reviewed =>
      LET L == res.loaded
          n == IF L <= 1 THEN 0 ELSE Min(10, L)
      IN /\ Len(res.rows) = n
         /\ \A k \in 1..n :
               LET r == res.mem[L - n + k]
               IN /\ res.rows[k].run = r.run_number
                  /\ res.rows[k].clusters = r.nand_clusters_used
                  /\ res.rows[k].inodes = r.nand_inodes_used
                  /\ res.rows[k].score = r.nand_health_score
         /\ L = 15 => \A k \in 1..10 :
               res.rows[k].run = res.mem[5 + k].run_number

\* a history of 15 records: 10 rows, the first for the 6th record
C21_Witness ==
    /\ Reviewed
    /\ res.loaded = 15
    /\ Len(res.rows) = 10
    /\ res.rows[1].run = res.mem[6].run_number
    /\ res.rows[10].run = res.mem[15].run_number

\* C22: in every timeline row a health score of -1 (unknown) is rendered
\* in a form other than the "<score>/100" form of a numeric score.
C22_SentinelRenderedDistinctly ==
    Reviewed =>
      \A k \in 1..Len(res.rows) :
        res.rows[k].score = -1 => res.rows[k].fmt # "%d/100"

\* ---------------------------------------------------------------- C23
\* cells 12 and 15..17 of a stored record: wifi_ok and padding[3]
RecordFlagsZero(f, i) ==
    LET base == HdrCells + SnapCells * (i - 1)
    IN /\ f.data[base + 12] = 0
       /\ f.data[base + 15] = 0 /\ f.data[base + 16] = 0
       /\ f.data[base + 17] = 0

\* C23: every record a save collects has network flag 0 and padding 0
\* whatever the probes return, and after any sequence of saves starting
\* from empty storage every record in the file has network flag 0 and
\* padding 0.
C23_FlagsZero ==
    /\ res.op = "save" /\ res.path # NoPath =>
          /\ res.new_snap.wifi_ok = 0
          /\ res.new_snap.padding = <<0, 0, 0>>
    /\ \A l \in Loc :
          \A i \in 1..FileRecs(files[l]) : RecordFlagsZero(files[l], i)

\* ---------------------------------------------------------------- C24
\* C24: for a loaded sequence r0..r(n-1) a save whose writes succeed
\* persists r0..r(n-1) followed by the new record when n < 50, and
\* r1..r49 followed by the new record when n = 50; the retained records
\* are unchanged and in order.
C24_StrictFifo ==
    res.op = "save" /\ res.io = "ok" /\ res.loaded >= 0 =>
      LET n == res.loaded
          kept == IF n < MAX_SNAPSHOTS THEN res.mem ELSE Tail(res.mem)
          want == kept \o <<res.new_snap>>
          f == files[res.path]
      IN /\ n <= MAX_SNAPSHOTS
         /\ res.out = want
         /\ WholeFile(f, Len(want))
         /\ \A i \in 1..Len(want) :
               SnapFromCells(SubSeq(f.data, HdrCells + SnapCells * (i - 1) + 1,
                                    HdrCells + SnapCells * i)) = want[i]

\* a save onto 50 loaded records: the second loaded record is now first,
\* the last loaded is 49th, the new one 50th
C24_Witness ==
    /\ res.op = "save" /\ res.io = "ok"
    /\ res.loaded = MAX_SNAPSHOTS
    /\ res.out[1] = res.mem[2]
    /\ res.out[MAX_SNAPSHOTS - 1] = res.mem[MAX_SNAPSHOTS]
    /\ res.out[MAX_SNAPSHOTS] = res.new_snap
    /\ res.mem[1] # res.mem[2]

\* ---------------------------------------------------------------- C25
\* C25: for every file content, every index used to read or write the
\* 50-element record array in a save or a review lies in 0..49.
C25_IndicesInBounds ==
    \A i \in res.idx : i >= 0 /\ i <= MAX_SNAPSHOTS - 1

\* ---------------------------------------------------------------- C26
\* the operation loaded no more records than the valid-header file held
C26_LoadStep ==
    OpStep =>
      LET p == res'.path
      IN p # NoPath /\ ValidHeader(files[p]) =>
           res'.loaded <= Max(0, FileRecs(files[p]))

\* C26: for a valid-header file that holds fewer complete records than its
\* header count declares, load returns no more records than the file
\* holds, so every record a save or review uses was read from the file.
C26_LoadedWasStored == [][C26_LoadStep]_vars

\* ---------------------------------------------------------------- C27
\* a valid history of at least one record on a mounted device
ValidNonEmpty(l) ==
    /\ mount[l] # "none"
    /\ ValidHeader(files[l])
    /\ FileCount(files[l]) >= 1
    /\ FileRecs(files[l]) >= 1

\* with a valid non-empty history at either location, the operation loaded
\* a non-empty history and a review reported it
C27_ShadowStep ==
    OpStep /\ (\E l \in Loc : ValidNonEmpty(l)) =>
      /\ res'.loaded >= 1
      /\ res'.op = "review" => Shown(res', "snapshot(s) on record")
      /\ ~Shown(res', EmptyStore)

\* C27: a valid, non-empty history file at either location is reported as
\* non-empty by a review and extended by a save; an empty or invalid file
\* at the other location never shadows it.
C27_NeverShadowed == [][C27_ShadowStep]_vars

\* ---------------------------------------------------------------- C28
\* C28: the clusters-used trend agrees with comparing the stored u32
\* values, values of 2^31 or more included: a larger latest value is
\* reported Worse, a smaller one Improved.
C28_UnsignedClusters ==
    Compared =>
      /\ U32Greater(Curr.nand_clusters_used, Prev.nand_clusters_used)
            => IndicatorsOf("NAND Clusters Used") = {"(WORSE)"}
      /\ U32Less(Curr.nand_clusters_used, Prev.nand_clusters_used)
            => IndicatorsOf("NAND Clusters Used") = {"(improved)"}

\* ---------------------------------------------------------------- C29
\* C29: when a save reports "Snapshot #N saved (K total on record)", the
\* file at the resolved path holds exactly K records and its last record
\* has run number N.
C29_ReportMatchesFile ==
    res.op = "save" /\ Shown(res, Saved) =>
      /\ res.count >= 1
      /\ WholeFile(files[res.path], res.count)
      /\ FileCount(files[res.path]) = res.count
      /\ FileRun(files[res.path], res.count) = res.next_run

\* ---------------------------------------------------------------- C30
\* C30: when both health scores are valid (0 or more), a latest score
\* below the previous one is reported Worse, one above it Improved, and
\* equal scores Unchanged.
C30_HealthPolarity ==
    Compared /\ Prev.nand_health_score >= 0 /\ Curr.nand_health_score >= 0 =>
      IndicatorsOf("Health Score") =
        {IF Curr.nand_health_score < Prev.nand_health_score THEN "(WORSE)"
         ELSE IF Curr.nand_health_score > Prev.nand_health_score
              THEN "(improved)"
         ELSE "(unchanged)"}

\* the score fell from 80 to 69 and was reported Worse
C30_Witness ==
    /\ Compared
    /\ Prev.nand_health_score = 80 /\ Curr.nand_health_score = 69
    /\ IndicatorsOf("Health Score") = {"(WORSE)"}

====
